---- MODULE Spec2Model ----
(***************************************************************************)
(* A model of helpers/MissionController.py: the controller of one mission  *)
(* (a Batch pool, a job and a blob container) together with the parts of   *)
(* the Azure backends its methods talk to.  Every remote request of a      *)
(* method is one step, so that a request can fail, and other actors can    *)
(* act, between two requests of the same call.                             *)
(***************************************************************************)
EXTENDS Integers, Sequences, FiniteSets, TLC

(***************************************************************************)
(* Bounds of the model.                                                    *)
(***************************************************************************)
\* ensurePool calls counted per run (claims about "calling twice")
MaxPoolCalls == 3
\* the pool's target node counts range over 0..MaxNodes
MaxNodes == 2

(***************************************************************************)
(* Program constants.                                                      *)
(***************************************************************************)
\* "if counter > 120" in the retry loop of _create_storage_container
RetryLimit == 120
\* "time.sleep(5)" in the retry loop of _create_storage_container
RetryInterval == 5

Controllers == {1, 2}

Null == "null"

(***************************************************************************)
(* Paths.  A path is the sequence of its segments; "." and ".." are the    *)
(* special segments os.path.normpath resolves.                             *)
(***************************************************************************)
RECURSIVE NormSegs(_, _)
NormSegs(segs, acc) ==
    IF segs = <<>> THEN acc
    ELSE LET s == Head(segs) IN
         IF s = "." THEN NormSegs(Tail(segs), acc)
         ELSE IF s = ".." /\ acc # <<>>
              THEN NormSegs(Tail(segs), SubSeq(acc, 1, Len(acc) - 1))
              ELSE NormSegs(Tail(segs), Append(acc, s))

\* os.path.abspath(os.path.normpath(p)) of a path given from the root
AbsNormPath(p) == NormSegs(p, <<>>)

\* os.path.basename / os.path.dirname of a normalised path
Basename(p) == p[Len(p)]
Dirname(p) == SubSeq(p, 1, Len(p) - 1)

\* os.path.join(parent, name)
Join(parent, name) == parent \o name

\* os.path.relpath(file, parent) for a file below parent
Relpath(file, parent) == SubSeq(file, Len(parent) + 1, Len(file))

IsUnder(file, dir) ==
    /\ Len(file) > Len(dir)
    /\ SubSeq(file, 1, Len(dir)) = dir

\* a blob name starts with the prefix "{base}/"
HasPrefix(name, base) == Len(name) > 1 /\ name[1] = base

(***************************************************************************)
(* The local file system at construction, the directories the caller may   *)
(* name, and the orders in which os.walk and list_blobs enumerate.         *)
(***************************************************************************)
InitialFs ==
    (<<"p", "a", "x">> :> "c1") @@ (<<"p", "a", "s", "y">> :> "c2") @@
    (<<"q", "a", "x">> :> "c3") @@ (<<"p", "b", "x">> :> "c4")

\* the dir_path arguments callers pass
DirArgs == { <<"p", "a">>, <<"q", ".", "a">>, <<"p", "b", "..", "b">> }

Cases == {"a", "b"}

\* os.walk is top-down: the files of a directory before those of its subdirectories
WalkOrder ==
    << <<"p", "a", "x">>, <<"p", "a", "s", "y">>,
       <<"q", "a", "x">>, <<"q", "a", "s", "y">>,
       <<"p", "b", "x">> >>

\* list_blobs returns the names in lexicographic order
BlobOrder ==
    << <<"a", "s", "y">>, <<"a", "x">>, <<"b", "x">> >>

\* a faulty variant: the walk does not descend into the subdirectories
Walk_TopOnly(fs, dir) ==
    SelectSeq(WalkOrder, LAMBDA f : f \in DOMAIN fs /\ IsUnder(f, dir)
                                      /\ Len(f) = Len(dir) + 1)

\* the files os.walk(dir_path) yields, in order
Walk(fs, dir) ==
    SelectSeq(WalkOrder, LAMBDA f : f \in DOMAIN fs /\ IsUnder(f, dir))

\* a faulty variant: only the first name under the prefix is returned
ListBlobs_First(bs, base) ==
    SubSeq(SelectSeq(BlobOrder, LAMBDA n : n \in DOMAIN bs /\ HasPrefix(n, base)), 1, 1)

\* list_blobs(prefix="{base}/")
ListBlobs(bs, base) ==
    SelectSeq(BlobOrder, LAMBDA n : n \in DOMAIN bs /\ HasPrefix(n, base))

(***************************************************************************)
(* Dictionaries and their pickled form.                                    *)
(***************************************************************************)
Put(f, k, v) == [x \in DOMAIN f \cup {k} |-> IF x = k THEN v ELSE f[x]]
Del(f, k) == [x \in DOMAIN f \ {k} |-> f[x]]
EmptyDict == [x \in {} |-> Null]

\* pickle.dumps of a dict: its items
Dumps(d) == { <<k, d[k]>> : k \in DOMAIN d }
\* pickle.loads: the dict of the items
Loads(s) == [k \in { it[1] : it \in s } |-> (CHOOSE it \in s : it[1] = k)[2]]

(***************************************************************************)
(* State.                                                                  *)
(***************************************************************************)
VARIABLES
    \* the storage backend: the mission's container, its data blobs (name -> content)
    \* and the blob uploaded_dirs.dat (<<>> when absent, <<pickle>> otherwise)
    container, blobs, ledgerBlob,
    \* the batch backend: the mission's pool and the ids of the tasks of its job
    poolExists, poolTarget, poolAlloc, tasks,
    \* the local file system (path -> content)
    localFs,
    \* MissionInfo.n_nodes
    n_nodes,
    \* the fields of each MissionController
    uploaded_dirs, container_url, container_token,
    \* each controller's call in progress: position, method, arguments, locals
    pc, op, arg, loc,
    \* how each controller's last call ended
    result,
    \* what each call has done so far (requests, attempts, waits)
    hist,
    \* TRUE while the controller is the one first constructed and every one of its
    \* calls has returned normally
    clean,
    \* what the ensurePool calls of the run have requested
    poolHist

vars == << container, blobs, ledgerBlob, poolExists, poolTarget, poolAlloc, tasks,
           localFs, n_nodes, uploaded_dirs, container_url, container_token,
           pc, op, arg, loc, result, hist, clean, poolHist >>

storageVars == << container, blobs, ledgerBlob >>
poolVars == << poolExists, poolTarget, poolAlloc >>
fieldVars == << uploaded_dirs, container_url, container_token >>

AllocStates == {"steady", "resizing", "stopping"}

NoArg == [path |-> <<>>, ignore |-> TRUE]

Loc0 == [todo |-> <<>>, counter |-> 0, created |-> FALSE,
         target |-> 0, alloc |-> "steady"]

Hist0 ==
    [nreq |-> 0, attempts |-> 0, slept |-> 0, nBeing |-> 0, gotCreated |-> FALSE,
     other |-> FALSE, mutated |-> FALSE, hadLedger |-> FALSE, stale |-> FALSE,
     afterStage |-> FALSE,
     stops |-> 0, polls |-> 0, resizes |-> 0, adds |-> 0,
     sawResizing |-> FALSE, sawSteady |-> FALSE, differs |-> FALSE,
     resizeArg |-> [n |-> 0, option |-> Null, afterStop |-> FALSE, afterSteady |-> FALSE,
                    lastSeen |-> Null]]

PoolHist0 == [calls |-> 0, adds |-> 0, resizes |-> 0, drift |-> FALSE, failed |-> FALSE,
              absent |-> TRUE]

\* __init__ (lines 60-64): no session, an empty ledger; the backends hold nothing yet
InitCommon ==
    /\ container = "absent"
    /\ blobs = EmptyDict
    /\ ledgerBlob = <<>>
    /\ tasks = {}
    /\ localFs = InitialFs
    /\ uploaded_dirs = [c \in Controllers |-> EmptyDict]
    /\ container_url = [c \in Controllers |-> Null]
    /\ container_token = [c \in Controllers |-> Null]
    /\ pc = [c \in Controllers |-> "idle"]
    /\ op = [c \in Controllers |-> "none"]
    /\ arg = [c \in Controllers |-> NoArg]
    /\ loc = [c \in Controllers |-> Loc0]
    /\ result = [c \in Controllers |-> "none"]
    /\ hist = [c \in Controllers |-> Hist0]
    /\ clean = TRUE

Init ==
    /\ InitCommon
    /\ poolExists = FALSE
    /\ poolTarget = 0
    /\ poolAlloc = "steady"
    /\ n_nodes = 1
    /\ poolHist = PoolHist0

(***************************************************************************)
(* Calls and returns.                                                      *)
(***************************************************************************)
\* a faulty variant: add_task goes to the task request without staging the case
Entry_SkipStage(o) ==
    CASE o = "ensureContainer" -> "ec_create"
      [] o = "deleteContainer" -> "dc_delete"
      [] o = "stageDirectory"  -> "up_check"
      [] o = "submitTask"      -> "at_add"
      [] o = "fetchDirectory"  -> "dl_check"
      [] o = "purgeDirectory"  -> "rm_check"
      [] o = "ensurePool"      -> "cp_exists"

Entry(o) ==
    CASE o = "ensureContainer" -> "ec_create"
      [] o = "deleteContainer" -> "dc_delete"
      [] o = "stageDirectory"  -> "up_check"
      [] o = "submitTask"      -> "up_check"
      [] o = "fetchDirectory"  -> "dl_check"
      [] o = "purgeDirectory"  -> "rm_check"
      [] o = "ensurePool"      -> "cp_exists"

\* a caller invokes method o of controller c with argument a
Call(c, o, a) ==
    /\ pc[c] = "idle"
    /\ pc' = [pc EXCEPT ![c] = Entry(o)]
    /\ op' = [op EXCEPT ![c] = o]
    /\ arg' = [arg EXCEPT ![c] = a]
    /\ loc' = [loc EXCEPT ![c] = Loc0]
    /\ result' = [result EXCEPT ![c] = "pending"]
    /\ hist' = [hist EXCEPT ![c] =
                  [Hist0 EXCEPT !.hadLedger = (container = "exists" /\ ledgerBlob # <<>>),
                                !.stale = (ledgerBlob # << Dumps(uploaded_dirs[c]) >>),
                                !.afterStage =
                                    /\ op[c] = "stageDirectory" /\ result[c] = "ok"
                                    /\ AbsNormPath(arg[c].path) = AbsNormPath(a.path)]]

\* the call of controller c ends: normally (r = "ok") or with the exception r
Return(c, r) ==
    /\ pc' = [pc EXCEPT ![c] = "idle"]
    /\ result' = [result EXCEPT ![c] = r]
    /\ clean' = (clean /\ r = "ok")

Goto(c, label) ==
    /\ pc' = [pc EXCEPT ![c] = label]
    /\ UNCHANGED << result, clean >>

(***************************************************************************)
(* _create_storage_container (ensureContainer).                            *)
(***************************************************************************)
\* a faulty variant: the URL of the container is not set
OpenSession_TokenOnly(c) ==
    /\ container_token' = [container_token EXCEPT ![c] = "sas"]
    /\ UNCHANGED container_url

\* lines 214-239: the SAS token and the URL of the container
OpenSession(c) ==
    /\ container_token' = [container_token EXCEPT ![c] = "sas"]
    /\ container_url' = [container_url EXCEPT ![c] = "url"]

\* the backend creates the container
CreateRemote ==
    /\ container' = "exists"
    /\ blobs' = EmptyDict
    /\ ledgerBlob' = <<>>

\* lines 165-169, 189-191, 211-212: create_container(fail_on_exist=True)
EnsureContainerCreate(c) ==
    /\ pc[c] = "ec_create"
    /\ UNCHANGED << poolVars, tasks, localFs, n_nodes, uploaded_dirs, op, arg, poolHist >>
    /\ \/ \* any other error: raise
          /\ hist' = [hist EXCEPT ![c].attempts = @ + 1, ![c].other = TRUE]
          /\ Return(c, "BackendFault")
          /\ UNCHANGED << storageVars, container_url, container_token, loc >>
       \/ \* created
          /\ container = "absent"
          /\ CreateRemote
          /\ hist' = [hist EXCEPT ![c].attempts = @ + 1, ![c].gotCreated = TRUE]
          /\ loc' = [loc EXCEPT ![c].created = TRUE]
          /\ OpenSession(c)
          /\ Return(c, "ok")
       \/ \* ContainerAlreadyExists
          /\ container = "exists"
          /\ hist' = [hist EXCEPT ![c].attempts = @ + 1, ![c].other = TRUE]
          /\ Goto(c, "ec_exists")
          /\ UNCHANGED << storageVars, container_url, container_token, loc >>
       \/ \* ContainerBeingDeleted: created = False, counter = 0
          /\ container = "deleting"
          /\ hist' = [hist EXCEPT ![c].attempts = @ + 1, ![c].nBeing = @ + 1]
          /\ loc' = [loc EXCEPT ![c].created = FALSE, ![c].counter = 0]
          /\ Goto(c, "ec_sleep")
          /\ UNCHANGED << storageVars, container_url, container_token >>

\* lines 174-176: exists(blob_name="uploaded_dirs.dat")
EnsureContainerExists(c) ==
    /\ pc[c] = "ec_exists"
    /\ hist' = [hist EXCEPT ![c].nreq = @ + 1]
    /\ UNCHANGED << storageVars, poolVars, tasks, localFs, n_nodes, uploaded_dirs,
                    op, arg, loc, poolHist >>
    /\ \/ /\ Return(c, "BackendFault")
          /\ UNCHANGED << container_url, container_token >>
       \/ /\ container = "exists" /\ ledgerBlob # <<>>
          /\ Goto(c, "ec_get")
          /\ UNCHANGED << container_url, container_token >>
       \/ /\ ~(container = "exists" /\ ledgerBlob # <<>>)
          /\ OpenSession(c)
          /\ Return(c, "ok")

\* a faulty variant: the recovered entries are added to the ledger in memory
RecoverLedger_Merge(c) ==
    [uploaded_dirs EXCEPT ![c] =
        [k \in DOMAIN @ \cup DOMAIN Loads(ledgerBlob[1]) |->
            IF k \in DOMAIN Loads(ledgerBlob[1]) THEN Loads(ledgerBlob[1])[k] ELSE @[k]]]

\* lines 178-187: download uploaded_dirs.dat and unpickle it into self.uploaded_dirs
RecoverLedger(c) == [uploaded_dirs EXCEPT ![c] = Loads(ledgerBlob[1])]

EnsureContainerGet(c) ==
    /\ pc[c] = "ec_get"
    /\ hist' = [hist EXCEPT ![c].nreq = @ + 1]
    /\ UNCHANGED << storageVars, poolVars, tasks, localFs, n_nodes, op, arg, loc, poolHist >>
    /\ \/ /\ Return(c, "BackendFault")
          /\ UNCHANGED << fieldVars >>
       \/ /\ container = "exists" /\ ledgerBlob # <<>>
          /\ uploaded_dirs' = RecoverLedger(c)
          /\ OpenSession(c)
          /\ Return(c, "ok")

\* line 198: time.sleep(5)
EnsureContainerSleep(c) ==
    /\ pc[c] = "ec_sleep"
    /\ hist' = [hist EXCEPT ![c].slept = @ + RetryInterval]
    /\ Goto(c, "ec_retry")
    /\ UNCHANGED << storageVars, poolVars, tasks, localFs, n_nodes, fieldVars,
                    op, arg, loc, poolHist >>

\* a faulty variant: the loop gives up one retry earlier
RetryExhausted_AtLimit(counter) == counter >= RetryLimit

\* line 205: the retry loop gives up
RetryExhausted(counter) == counter > RetryLimit

\* lines 200-210 and the loop test of line 192, after create_container(fail_on_exist=False)
\* has answered `created`
AfterRetry(c, created) ==
    LET counter == loc[c].counter + 1 IN
    /\ loc' = [loc EXCEPT ![c].created = created, ![c].counter = counter]
    /\ IF RetryExhausted(counter)
       THEN Return(c, "Timeout") /\ UNCHANGED << container_url, container_token >>
       ELSE IF created
            THEN OpenSession(c) /\ Return(c, "ok")
            ELSE Goto(c, "ec_sleep") /\ UNCHANGED << container_url, container_token >>

\* lines 200-202: create_container(fail_on_exist=False): True when created, False on a
\* conflict (the container exists or is being deleted), any other error is raised
EnsureContainerRetry(c) ==
    /\ pc[c] = "ec_retry"
    /\ UNCHANGED << poolVars, tasks, localFs, n_nodes, uploaded_dirs, op, arg, poolHist >>
    /\ \/ /\ hist' = [hist EXCEPT ![c].attempts = @ + 1, ![c].other = TRUE]
          /\ Return(c, "BackendFault")
          /\ UNCHANGED << storageVars, container_url, container_token, loc >>
       \/ /\ container = "absent"
          /\ CreateRemote
          /\ hist' = [hist EXCEPT ![c].attempts = @ + 1, ![c].gotCreated = TRUE]
          /\ AfterRetry(c, TRUE)
       \/ /\ container = "exists"
          /\ hist' = [hist EXCEPT ![c].attempts = @ + 1, ![c].other = TRUE]
          /\ UNCHANGED storageVars
          /\ AfterRetry(c, FALSE)
       \/ /\ container = "deleting"
          /\ hist' = [hist EXCEPT ![c].attempts = @ + 1, ![c].nBeing = @ + 1]
          /\ UNCHANGED storageVars
          /\ AfterRetry(c, FALSE)

(***************************************************************************)
(* _delete_storage_container (deleteContainer).                            *)
(***************************************************************************)
\* lines 247-248: delete_container(fail_not_exist=True)
DeleteContainer(c) ==
    /\ pc[c] = "dc_delete"
    /\ hist' = [hist EXCEPT ![c].nreq = @ + 1]
    /\ UNCHANGED << poolVars, tasks, localFs, n_nodes, fieldVars, op, arg, loc, poolHist >>
    /\ \/ /\ Return(c, "BackendFault")
          /\ UNCHANGED storageVars
       \/ /\ container = "exists"
          /\ container' = "deleting"
          /\ blobs' = EmptyDict
          /\ ledgerBlob' = <<>>
          /\ Return(c, "ok")

\* the backend finishes the deletion of the container
ContainerGone ==
    /\ container = "deleting"
    /\ container' = "absent"
    /\ UNCHANGED << blobs, ledgerBlob, poolVars, tasks, localFs, n_nodes, fieldVars,
                    pc, op, arg, loc, result, hist, clean, poolHist >>

(***************************************************************************)
(* _upload_dir (stageDirectory) and add_task (submitTask), whose first     *)
(* statement is the call of _upload_dir.                                   *)
(***************************************************************************)
DirPath(c) == AbsNormPath(arg[c].path)
BaseName(c) == Basename(DirPath(c))

SessionOpen(c) == container_url[c] # Null /\ container_token[c] # Null

\* a faulty variant: the base name is not looked up in the ledger
UploadCheck_NoDup(ud, open, base) == IF ~open THEN "AssertionError" ELSE "ok"

\* lines 289-300: the duplicate check, then the assertions on the session
UploadCheck(ud, open, base) ==
    IF base \in DOMAIN ud THEN "DuplicateCase"
    ELSE IF ~open THEN "AssertionError"
    ELSE "ok"

\* lines 286-302 and the start of the walk of line 305
StageCheck(c) ==
    /\ pc[c] = "up_check"
    /\ UNCHANGED << storageVars, poolVars, tasks, localFs, n_nodes, fieldVars,
                    op, arg, hist, poolHist >>
    /\ LET r == UploadCheck(uploaded_dirs[c], SessionOpen(c), BaseName(c))
           files == Walk(localFs, DirPath(c))
       IN IF r # "ok"
          THEN Return(c, r) /\ UNCHANGED loc
          ELSE /\ loc' = [loc EXCEPT ![c].todo = files]
               /\ Goto(c, IF files = <<>> THEN "up_ledger" ELSE "up_file")

\* line 308: the blob name of a file of the directory
BlobName(file, dir) == Relpath(file, Dirname(dir))

\* lines 306-314: create_blob_from_path for the next file of the walk
StageFile(c) ==
    /\ pc[c] = "up_file"
    /\ hist' = [hist EXCEPT ![c].nreq = @ + 1]
    /\ UNCHANGED << container, ledgerBlob, poolVars, tasks, localFs, n_nodes, fieldVars,
                    op, arg, poolHist >>
    /\ LET file == Head(loc[c].todo)
           rest == Tail(loc[c].todo)
       IN \/ /\ Return(c, "BackendFault")
             /\ UNCHANGED << blobs, loc >>
          \/ /\ container = "exists"
             /\ blobs' = Put(blobs, BlobName(file, DirPath(c)), localFs[file])
             /\ loc' = [loc EXCEPT ![c].todo = rest]
             /\ Goto(c, IF rest = <<>> THEN "up_ledger" ELSE "up_file")

\* line 319: self.uploaded_dirs[dir_base_name] = os.path.dirname(dir_path)
AddEntry(ud, dir) == Put(ud, Basename(dir), Dirname(dir))

\* what follows a successful _upload_dir: add_task goes on to line 434
AfterUpload(c) == IF op[c] = "submitTask" THEN "at_add" ELSE "idle"

\* a faulty variant: the entry is added to the ledger read from uploaded_dirs.dat, and
\* the result is what is uploaded
StageLedger_Merge(c) ==
    /\ pc[c] = "up_ledger"
    /\ hist' = [hist EXCEPT ![c].nreq = @ + 1, ![c].mutated = TRUE]
    /\ uploaded_dirs' = [uploaded_dirs EXCEPT ![c] = AddEntry(@, DirPath(c))]
    /\ UNCHANGED << container, blobs, poolVars, tasks, localFs, n_nodes,
                    container_url, container_token, op, arg, loc, poolHist >>
    /\ \/ /\ Return(c, "BackendFault")
          /\ UNCHANGED ledgerBlob
       \/ /\ container = "exists"
          /\ ledgerBlob' =
                << Dumps(AddEntry(IF ledgerBlob = <<>> THEN EmptyDict
                                  ELSE Loads(ledgerBlob[1]), DirPath(c))) >>
          /\ IF AfterUpload(c) = "idle" THEN Return(c, "ok") ELSE Goto(c, AfterUpload(c))

\* lines 319-331: the ledger entry, then the upload of the pickled ledger
StageLedger(c) ==
    /\ pc[c] = "up_ledger"
    /\ hist' = [hist EXCEPT ![c].nreq = @ + 1, ![c].mutated = TRUE]
    /\ uploaded_dirs' = [uploaded_dirs EXCEPT ![c] = AddEntry(@, DirPath(c))]
    /\ UNCHANGED << container, blobs, poolVars, tasks, localFs, n_nodes,
                    container_url, container_token, op, arg, loc, poolHist >>
    /\ \/ /\ Return(c, "BackendFault")
          /\ UNCHANGED ledgerBlob
       \/ /\ container = "exists"
          /\ ledgerBlob' = << Dumps(uploaded_dirs'[c]) >>
          /\ IF AfterUpload(c) = "idle" THEN Return(c, "ok") ELSE Goto(c, AfterUpload(c))

\* lines 434-476: batch_client.task.add with the case's base name as the task id
SubmitTaskAdd(c) ==
    /\ pc[c] = "at_add"
    /\ hist' = [hist EXCEPT ![c].nreq = @ + 1]
    /\ UNCHANGED << storageVars, poolVars, localFs, n_nodes, fieldVars, op, arg, loc,
                    poolHist >>
    /\ \/ /\ Return(c, "BackendFault")
          /\ UNCHANGED tasks
       \/ /\ BaseName(c) \notin tasks
          /\ tasks' = tasks \cup {BaseName(c)}
          /\ Return(c, "ok")

(***************************************************************************)
(* _download_dir (fetchDirectory) and _delete_dir (purgeDirectory).        *)
(***************************************************************************)
\* a faulty variant: a missing directory is always skipped
LookupCheck_AlwaysSkip(ud, open, base, ignore) ==
    IF ~open THEN "AssertionError"
    ELSE IF base \in DOMAIN ud THEN "found"
    ELSE "ok"

\* lines 340-354 and 382-396: the assertions on the session, then the ledger lookup
LookupCheck(ud, open, base, ignore) ==
    IF ~open THEN "AssertionError"
    ELSE IF base \in DOMAIN ud THEN "found"
    ELSE IF ignore THEN "ok"
    ELSE "NotFound"

FetchCheck(c) ==
    /\ pc[c] = "dl_check"
    /\ UNCHANGED << storageVars, poolVars, tasks, localFs, n_nodes, fieldVars,
                    op, arg, loc, hist, poolHist >>
    /\ LET r == LookupCheck(uploaded_dirs[c], SessionOpen(c), BaseName(c), arg[c].ignore)
       IN IF r = "found" THEN Goto(c, "dl_list") ELSE Return(c, r)

\* lines 356-358: list_blobs(prefix="{base}/")
FetchList(c) ==
    /\ pc[c] = "dl_list"
    /\ hist' = [hist EXCEPT ![c].nreq = @ + 1]
    /\ UNCHANGED << storageVars, poolVars, tasks, localFs, n_nodes, fieldVars,
                    op, arg, poolHist >>
    /\ \/ /\ Return(c, "BackendFault")
          /\ UNCHANGED loc
       \/ /\ container = "exists"
          /\ LET names == ListBlobs(blobs, BaseName(c))
             IN /\ loc' = [loc EXCEPT ![c].todo = names]
                /\ IF names = <<>> THEN Return(c, "ok") ELSE Goto(c, "dl_file")

\* lines 361-362: where a blob is downloaded to
TargetPath(ud, base, name) == Join(ud[base], name)

\* lines 360-371: get_blob_to_path for the next blob of the list
FetchFile(c) ==
    /\ pc[c] = "dl_file"
    /\ hist' = [hist EXCEPT ![c].nreq = @ + 1]
    /\ UNCHANGED << storageVars, poolVars, tasks, n_nodes, fieldVars, op, arg, poolHist >>
    /\ LET name == Head(loc[c].todo)
           rest == Tail(loc[c].todo)
       IN \/ /\ Return(c, "BackendFault")
             /\ UNCHANGED << localFs, loc >>
          \/ /\ container = "exists" /\ name \in DOMAIN blobs
             /\ localFs' = Put(localFs, TargetPath(uploaded_dirs[c], BaseName(c), name),
                               blobs[name])
             /\ loc' = [loc EXCEPT ![c].todo = rest]
             /\ IF rest = <<>> THEN Return(c, "ok") ELSE Goto(c, "dl_file")

PurgeCheck(c) ==
    /\ pc[c] = "rm_check"
    /\ UNCHANGED << storageVars, poolVars, tasks, localFs, n_nodes, fieldVars,
                    op, arg, loc, hist, poolHist >>
    /\ LET r == LookupCheck(uploaded_dirs[c], SessionOpen(c), BaseName(c), arg[c].ignore)
       IN IF r = "found" THEN Goto(c, "rm_list") ELSE Return(c, r)

\* lines 398-400: list_blobs(prefix="{base}/")
PurgeList(c) ==
    /\ pc[c] = "rm_list"
    /\ hist' = [hist EXCEPT ![c].nreq = @ + 1]
    /\ UNCHANGED << storageVars, poolVars, tasks, localFs, n_nodes, fieldVars,
                    op, arg, poolHist >>
    /\ \/ /\ Return(c, "BackendFault")
          /\ UNCHANGED loc
       \/ /\ container = "exists"
          /\ LET names == ListBlobs(blobs, BaseName(c))
             IN /\ loc' = [loc EXCEPT ![c].todo = names]
                /\ Goto(c, IF names = <<>> THEN "rm_ledger" ELSE "rm_blob")

\* lines 402-407: delete_blob for the next blob of the list
PurgeBlob(c) ==
    /\ pc[c] = "rm_blob"
    /\ hist' = [hist EXCEPT ![c].nreq = @ + 1]
    /\ UNCHANGED << container, ledgerBlob, poolVars, tasks, localFs, n_nodes, fieldVars,
                    op, arg, poolHist >>
    /\ LET name == Head(loc[c].todo)
           rest == Tail(loc[c].todo)
       IN \/ /\ Return(c, "BackendFault")
             /\ UNCHANGED << blobs, loc >>
          \/ /\ container = "exists" /\ name \in DOMAIN blobs
             /\ blobs' = Del(blobs, name)
             /\ loc' = [loc EXCEPT ![c].todo = rest]
             /\ Goto(c, IF rest = <<>> THEN "rm_ledger" ELSE "rm_blob")

\* a faulty variant: the entry stays in the ledger
RemoveEntry_Keep(ud, base) == ud

\* line 412: del self.uploaded_dirs[dir_base_name]
RemoveEntry(ud, base) == Del(ud, base)

\* lines 411-422: the ledger entry removed, then the upload of the pickled ledger
PurgeLedger(c) ==
    /\ pc[c] = "rm_ledger"
    /\ hist' = [hist EXCEPT ![c].nreq = @ + 1, ![c].mutated = TRUE]
    /\ uploaded_dirs' = [uploaded_dirs EXCEPT ![c] = RemoveEntry(@, BaseName(c))]
    /\ UNCHANGED << container, blobs, poolVars, tasks, localFs, n_nodes,
                    container_url, container_token, op, arg, loc, poolHist >>
    /\ \/ /\ Return(c, "BackendFault")
          /\ UNCHANGED ledgerBlob
       \/ /\ container = "exists"
          /\ ledgerBlob' = << Dumps(uploaded_dirs'[c]) >>
          /\ Return(c, "ok")

(***************************************************************************)
(* The callers of the storage methods, and the process restarting.         *)
(***************************************************************************)
StorageOps == {"ensureContainer", "deleteContainer", "stageDirectory", "submitTask",
               "fetchDirectory", "purgeDirectory"}

Args(o) ==
    IF o \in {"ensureContainer", "deleteContainer"} THEN {NoArg}
    ELSE IF o \in {"stageDirectory", "submitTask"}
         THEN { [path |-> d, ignore |-> TRUE] : d \in DirArgs }
         ELSE { [path |-> d, ignore |-> i] : d \in DirArgs, i \in BOOLEAN }

CallStorage(c) ==
    \E o \in StorageOps : \E a \in Args(o) :
        /\ Call(c, o, a)
        /\ UNCHANGED << storageVars, poolVars, tasks, localFs, n_nodes, fieldVars,
                        clean, poolHist >>

\* the process ends and a new MissionController is constructed (lines 60-64)
Restart(c) ==
    /\ pc[c] = "idle"
    /\ result[c] # "none"
    /\ uploaded_dirs' = [uploaded_dirs EXCEPT ![c] = EmptyDict]
    /\ container_url' = [container_url EXCEPT ![c] = Null]
    /\ container_token' = [container_token EXCEPT ![c] = Null]
    /\ op' = [op EXCEPT ![c] = "none"]
    /\ arg' = [arg EXCEPT ![c] = NoArg]
    /\ loc' = [loc EXCEPT ![c] = Loc0]
    /\ result' = [result EXCEPT ![c] = "none"]
    /\ hist' = [hist EXCEPT ![c] = Hist0]
    /\ clean' = FALSE
    /\ UNCHANGED << storageVars, poolVars, tasks, localFs, n_nodes, pc, poolHist >>

StorageStep(c) ==
    \/ CallStorage(c)
    \/ EnsureContainerCreate(c)
    \/ EnsureContainerExists(c)
    \/ EnsureContainerGet(c)
    \/ EnsureContainerSleep(c)
    \/ EnsureContainerRetry(c)
    \/ DeleteContainer(c)
    \/ StageCheck(c)
    \/ StageFile(c)
    \/ StageLedger(c)
    \/ SubmitTaskAdd(c)
    \/ FetchCheck(c)
    \/ FetchList(c)
    \/ FetchFile(c)
    \/ PurgeCheck(c)
    \/ PurgeList(c)
    \/ PurgeBlob(c)
    \/ PurgeLedger(c)
    \/ Restart(c)

\* one controller and the backends
Next ==
    \/ StorageStep(1)
    \/ ContainerGone

Spec == Init /\ [][Next]_vars

(***************************************************************************)
(* _create_pool (ensurePool), the Batch backend and the other users of the *)
(* Batch account.                                                          *)
(***************************************************************************)
ReturnPool(c, r) ==
    /\ Return(c, r)
    /\ poolHist' = [poolHist EXCEPT !.calls = @ + 1, !.failed = @ \/ r # "ok"]

\* line 79: batch_client.pool.exists
EnsurePoolExists(c) ==
    /\ pc[c] = "cp_exists"
    /\ UNCHANGED << storageVars, poolVars, tasks, localFs, n_nodes, fieldVars,
                    op, arg, loc, hist >>
    /\ \/ ReturnPool(c, "BackendFault")
       \/ /\ Goto(c, IF poolExists THEN "cp_get" ELSE "cp_add")
          /\ UNCHANGED poolHist

\* a faulty variant: a pool is left alone only when it is larger than required
NeedsResize_Le(target, wanted) == target <= wanted

\* line 86: the pool does not have the required number of nodes
NeedsResize(target, wanted) == target # wanted

\* line 97: the pool is under resizing, so the resizing is stopped first
NeedsStop(alloc) == alloc = "resizing"

\* lines 83-97: batch_client.pool.get and the tests on what it returned
EnsurePoolGet(c) ==
    /\ pc[c] = "cp_get"
    /\ UNCHANGED << storageVars, poolVars, tasks, localFs, n_nodes, fieldVars, op, arg >>
    /\ \/ /\ ReturnPool(c, "BackendFault")
          /\ UNCHANGED << loc, hist >>
       \/ /\ poolExists
          /\ loc' = [loc EXCEPT ![c].target = poolTarget, ![c].alloc = poolAlloc]
          /\ IF ~NeedsResize(poolTarget, n_nodes)
             THEN ReturnPool(c, "ok") /\ UNCHANGED hist
             ELSE /\ hist' = [hist EXCEPT ![c].differs = TRUE,
                                          ![c].sawResizing = NeedsStop(poolAlloc)]
                  /\ Goto(c, IF NeedsStop(poolAlloc) THEN "cp_stop" ELSE "cp_resize")
                  /\ UNCHANGED poolHist

\* line 98: batch_client.pool.stop_resize; the loop of line 100 is then entered,
\* pool_info still being the one that said "resizing"
EnsurePoolStop(c) ==
    /\ pc[c] = "cp_stop"
    /\ hist' = [hist EXCEPT ![c].stops = @ + 1]
    /\ UNCHANGED << storageVars, poolExists, poolTarget, tasks, localFs, n_nodes,
                    fieldVars, op, arg, loc >>
    /\ \/ /\ ReturnPool(c, "BackendFault")
          /\ UNCHANGED poolAlloc
       \/ /\ poolExists
          /\ poolAlloc' = IF poolAlloc = "resizing" THEN "stopping" ELSE poolAlloc
          /\ Goto(c, "cp_sleep")
          /\ UNCHANGED poolHist

\* a faulty variant: the poll goes on whatever the pool reports
KeepPolling_Always(alloc) == alloc \in AllocStates

\* a faulty variant: the poll ends as soon as the pool is no longer resizing
KeepPolling_Resizing(alloc) == alloc = "resizing"

\* line 100: the poll goes on
KeepPolling(alloc) == alloc # "steady"

\* line 101: time.sleep(2), in the loop of line 100
EnsurePoolSleep(c) ==
    /\ pc[c] = "cp_sleep"
    /\ Goto(c, "cp_poll")
    /\ UNCHANGED << storageVars, poolVars, tasks, localFs, n_nodes, fieldVars,
                    op, arg, loc, hist, poolHist >>

\* lines 102-103 and the loop test of line 100: batch_client.pool.get
EnsurePoolPoll(c) ==
    /\ pc[c] = "cp_poll"
    /\ UNCHANGED << storageVars, poolVars, tasks, localFs, n_nodes, fieldVars, op, arg >>
    /\ \/ /\ ReturnPool(c, "BackendFault")
          /\ UNCHANGED << loc, hist >>
       \/ /\ poolExists
          /\ loc' = [loc EXCEPT ![c].target = poolTarget, ![c].alloc = poolAlloc]
          /\ hist' = [hist EXCEPT ![c].sawSteady = @ \/ poolAlloc = "steady"]
          /\ Goto(c, IF KeepPolling(poolAlloc) THEN "cp_sleep" ELSE "cp_resize")
          /\ UNCHANGED poolHist

\* lines 108-110: the PoolResizeParameter
ResizeParameter == [n |-> n_nodes, option |-> "requeue"]

\* lines 106-110: batch_client.pool.resize, which the backend accepts for a steady pool
EnsurePoolResize(c) ==
    /\ pc[c] = "cp_resize"
    /\ hist' = [hist EXCEPT ![c].resizes = @ + 1,
                            ![c].resizeArg =
                                [n |-> ResizeParameter.n, option |-> ResizeParameter.option,
                                 afterStop |-> hist[c].stops > 0,
                                 afterSteady |-> hist[c].sawSteady,
                                 lastSeen |-> loc[c].alloc]]
    /\ UNCHANGED << storageVars, poolExists, tasks, localFs, n_nodes, fieldVars,
                    op, arg, loc >>
    /\ \/ /\ Return(c, "BackendFault")
          /\ poolHist' = [poolHist EXCEPT !.calls = @ + 1, !.failed = TRUE,
                                          !.resizes = @ + 1]
          /\ UNCHANGED << poolTarget, poolAlloc >>
       \/ /\ poolExists /\ poolAlloc = "steady"
          /\ poolTarget' = ResizeParameter.n
          /\ poolAlloc' = "resizing"
          /\ Return(c, "ok")
          /\ poolHist' = [poolHist EXCEPT !.calls = @ + 1, !.resizes = @ + 1]

\* lines 116-145: batch_client.pool.add, whose errors are not caught
EnsurePoolAdd(c) ==
    /\ pc[c] = "cp_add"
    /\ hist' = [hist EXCEPT ![c].adds = @ + 1]
    /\ UNCHANGED << storageVars, tasks, localFs, n_nodes, fieldVars, op, arg, loc >>
    /\ \/ /\ Return(c, "BackendFault")
          /\ poolHist' = [poolHist EXCEPT !.calls = @ + 1, !.failed = TRUE, !.adds = @ + 1]
          /\ UNCHANGED poolVars
       \/ /\ poolExists
          /\ Return(c, "PoolExists")
          /\ poolHist' = [poolHist EXCEPT !.calls = @ + 1, !.failed = TRUE, !.adds = @ + 1]
          /\ UNCHANGED poolVars
       \/ /\ ~poolExists
          /\ poolExists' = TRUE
          /\ poolTarget' = n_nodes
          /\ poolAlloc' = "resizing"
          /\ Return(c, "ok")
          /\ poolHist' = [poolHist EXCEPT !.calls = @ + 1, !.adds = @ + 1]

CallPool(c) ==
    /\ poolHist.calls < MaxPoolCalls
    /\ Call(c, "ensurePool", NoArg)
    /\ UNCHANGED << storageVars, poolVars, tasks, localFs, n_nodes, fieldVars,
                    clean, poolHist >>

\* the backend finishes a resize, or the stop of one
PoolSettle ==
    /\ poolExists /\ poolAlloc # "steady"
    /\ poolAlloc' = "steady"
    /\ UNCHANGED << storageVars, poolExists, poolTarget, tasks, localFs, n_nodes,
                    fieldVars, pc, op, arg, loc, result, hist, clean, poolHist >>

\* another user of the account creates, resizes or deletes the pool
OtherActor ==
    /\ poolHist' = [poolHist EXCEPT !.drift = TRUE]
    /\ UNCHANGED << storageVars, tasks, localFs, n_nodes, fieldVars,
                    pc, op, arg, loc, result, hist, clean >>
    /\ \/ /\ ~poolExists
          /\ poolExists' = TRUE
          /\ poolTarget' \in 0..MaxNodes
          /\ poolAlloc' = "resizing"
       \/ /\ poolExists /\ poolAlloc = "steady"
          /\ poolTarget' \in (0..MaxNodes) \ {poolTarget}
          /\ poolAlloc' = "resizing"
          /\ UNCHANGED poolExists
       \/ /\ poolExists
          /\ poolExists' = FALSE
          /\ poolTarget' = 0
          /\ poolAlloc' = "steady"

PoolStep(c) ==
    \/ CallPool(c)
    \/ EnsurePoolExists(c)
    \/ EnsurePoolGet(c)
    \/ EnsurePoolStop(c)
    \/ EnsurePoolSleep(c)
    \/ EnsurePoolPoll(c)
    \/ EnsurePoolResize(c)
    \/ EnsurePoolAdd(c)

\* the pool as the controller may find it
InitPool ==
    /\ InitCommon
    /\ n_nodes \in 0..MaxNodes
    /\ poolExists \in BOOLEAN
    /\ poolTarget \in 0..MaxNodes
    /\ poolAlloc \in AllocStates
    /\ ~poolExists => poolTarget = 0 /\ poolAlloc = "steady"
    /\ poolHist = [PoolHist0 EXCEPT !.absent = ~poolExists]

NextPool ==
    \/ PoolStep(1)
    \/ PoolSettle
    \/ OtherActor

SpecPool == InitPool /\ [][NextPool]_vars

\* the process of the controller keeps running: a request is answered or fails, and
\* time.sleep returns; nothing is assumed of the backend or of the other users
SpecPoolFair == SpecPool /\ WF_vars(PoolStep(1))

(***************************************************************************)
(* Two controllers of the same mission, each in a process of its own, that *)
(* open the container and stage directories.                               *)
(***************************************************************************)
CallTwo(c) ==
    \E o \in {"ensureContainer", "stageDirectory"} : \E a \in Args(o) :
        /\ Call(c, o, a)
        /\ UNCHANGED << storageVars, poolVars, tasks, localFs, n_nodes, fieldVars,
                        clean, poolHist >>

TwoStep(c) ==
    \/ CallTwo(c)
    \/ EnsureContainerCreate(c)
    \/ EnsureContainerExists(c)
    \/ EnsureContainerGet(c)
    \/ StageCheck(c)
    \/ StageFile(c)
    \/ StageLedger(c)

NextTwo == \E c \in Controllers : TwoStep(c)

SpecTwo == Init /\ [][NextTwo]_vars

(***************************************************************************)
(* Properties.                                                             *)
(***************************************************************************)
Staged(b) == \E n \in DOMAIN blobs : HasPrefix(n, b)

Ended(c, o) == pc[c] = "idle" /\ op[c] = o /\ result[c] \notin {"none", "pending"}

\* C1: after calls that all returned normally, a case has data blobs under its
\* prefix if and only if the ledger in memory has an entry for it.
C1_StagedIffInLedger ==
    \A c \in Controllers :
        (clean /\ pc[c] = "idle" /\ result[c] = "ok")
            => \A b \in Cases : Staged(b) <=> b \in DOMAIN uploaded_dirs[c]

\* C2: when stageDirectory or purgeDirectory has changed the ledger in memory, the
\* blob uploaded_dirs.dat holds the pickled ledger once the call has ended.
C2_LedgerBlobCurrent ==
    \A c \in Controllers :
        (pc[c] = "idle" /\ op[c] \in {"stageDirectory", "purgeDirectory"}
            /\ hist[c].mutated)
            => ledgerBlob = << Dumps(uploaded_dirs[c]) >>

\* C3: when the container existed and held uploaded_dirs.dat at the call of
\* ensureContainer, the ledger in memory is the content of that blob once the call has
\* returned normally.
C3_LedgerRecovered ==
    \A c \in Controllers :
        (Ended(c, "ensureContainer") /\ result[c] = "ok" /\ hist[c].hadLedger)
            => /\ ledgerBlob # <<>>
               /\ Dumps(uploaded_dirs[c]) = ledgerBlob[1]
               /\ DOMAIN uploaded_dirs[c] = { it[1] : it \in ledgerBlob[1] }

\* C3, its case: a ledger was recovered that differs from what was in memory
C3_Witness ==
    /\ Ended(1, "ensureContainer") /\ result[1] = "ok"
    /\ hist[1].hadLedger /\ hist[1].stale
    /\ uploaded_dirs[1] # EmptyDict

\* C4: when the first N <= 120 creation attempts of a call are answered "being
\* deleted" and the next one creates the container, the call makes N+1 attempts, has
\* slept the retry interval before each attempt after the first, and returns normally
\* with the session set.
C4_RetryUntilCreated ==
    \A c \in Controllers :
        /\ (Ended(c, "ensureContainer") /\ hist[c].gotCreated /\ ~hist[c].other
                /\ hist[c].nBeing <= 120)
              => /\ result[c] = "ok"
                 /\ hist[c].attempts = hist[c].nBeing + 1
                 /\ hist[c].slept = RetryInterval * hist[c].nBeing
                 /\ SessionOpen(c)
        /\ pc[c] = "ec_retry" => hist[c].slept = RetryInterval * hist[c].attempts

\* C4, its case: 120 answers "being deleted", then the container is created
C4_Witness ==
    /\ Ended(1, "ensureContainer") /\ hist[1].gotCreated /\ ~hist[1].other
    /\ hist[1].nBeing = 120 /\ hist[1].attempts = 121

\* C5: a call retries the creation at most 120 times, and ends with the timeout
\* error when all the retries failed.
C5_AtMost120Retries ==
    \A c \in Controllers :
        /\ loc[c].counter <= 120
        /\ (Ended(c, "ensureContainer") /\ loc[c].counter >= 120 /\ ~hist[c].gotCreated
                /\ ~hist[c].other)
              => result[c] = "Timeout"

\* C6: two calls of ensurePool in a row, the pool absent at first and nobody else
\* changing it, make one creation request and no resize request in all.
C6_SecondCallNoOp ==
    (poolHist.absent /\ ~poolHist.drift /\ ~poolHist.failed /\ poolHist.calls = 2)
        => /\ poolHist.adds = 1
           /\ poolHist.resizes = 0
           /\ pc[1] = "idle" => hist[1].adds = 0 /\ hist[1].resizes = 0 /\ hist[1].stops = 0

\* C6, its case: the second call has returned
C6_Witness ==
    /\ poolHist.absent /\ ~poolHist.drift /\ ~poolHist.failed /\ poolHist.calls = 2
    /\ Ended(1, "ensurePool") /\ result[1] = "ok"

\* C7: a call of ensurePool that finds the pool with another target node count and
\* returns makes exactly one resize request, for n_nodes with the "requeue" option;
\* when it saw the pool resizing, the request comes after a stop-resize request and
\* after a poll that saw the pool steady.
C7_OneResize ==
    \A c \in Controllers :
        /\ (Ended(c, "ensurePool") /\ result[c] = "ok" /\ hist[c].differs)
              => hist[c].resizes = 1
        /\ hist[c].resizes <= 1
        /\ hist[c].resizes = 1
              => /\ hist[c].differs
                 /\ hist[c].resizeArg.n = n_nodes
                 /\ hist[c].resizeArg.option = "requeue"
                 /\ hist[c].sawResizing
                       => hist[c].resizeArg.afterStop /\ hist[c].resizeArg.afterSteady
        /\ (pc[c] = "cp_resize" /\ hist[c].sawResizing)
              => hist[c].stops = 1 /\ hist[c].sawSteady

\* C7, its case: the pool was resizing, and the call has resized it
C7_Witness ==
    /\ Ended(1, "ensurePool") /\ result[1] = "ok"
    /\ hist[1].differs /\ hist[1].sawResizing /\ hist[1].resizes = 1
    /\ poolTarget = n_nodes

\* C8: no call of ensurePool ends with the error of a pool that already exists.
C8_NoDuplicateCreateError ==
    \A c \in Controllers : result[c] # "PoolExists"

\* C9: stageDirectory of a directory whose base name is in the ledger ends with the
\* duplicate-case error, uploads nothing and changes neither the ledger in memory nor
\* the blob uploaded_dirs.dat.
C9_DuplicateRejected ==
    [][\A c \in Controllers :
          (pc[c] = "up_check" /\ pc'[c] # "up_check"
              /\ BaseName(c) \in DOMAIN uploaded_dirs[c])
              => /\ pc'[c] = "idle"
                 /\ result'[c] = "DuplicateCase"
                 /\ hist'[c].nreq = 0
                 /\ UNCHANGED << uploaded_dirs, container, blobs, ledgerBlob >>]_vars

\* C9, its case: a directory of the same base name and another parent was refused
C9_Witness ==
    /\ Ended(1, "stageDirectory") /\ result[1] = "DuplicateCase"
    /\ BaseName(1) \in DOMAIN uploaded_dirs[1]
    /\ uploaded_dirs[1][BaseName(1)] # Dirname(DirPath(1))
    /\ SessionOpen(1)

\* how fetchDirectory and purgeDirectory treat a base name that is not in the ledger
MissingCasePolicy(c) ==
    /\ pc'[c] = "idle"
    /\ IF arg[c].ignore
       THEN /\ result'[c] = "ok"
            /\ hist'[c].nreq = 0
            /\ UNCHANGED << uploaded_dirs, container_url, container_token,
                            container, blobs, ledgerBlob, localFs >>
       ELSE result'[c] = "NotFound"

\* C10, as stated: in every state of the controller, fetchDirectory and
\* purgeDirectory of a base name that is not in the ledger do nothing when
\* ignoreMissing is true and raise the not-found error otherwise.
C10_MissingCaseAnyState ==
    [][\A c \in Controllers :
          (pc[c] \in {"dl_check", "rm_check"} /\ pc'[c] # pc[c]
              /\ BaseName(c) \notin DOMAIN uploaded_dirs[c])
              => MissingCasePolicy(c)]_vars

\* C10, amended: the same, in every state in which the container session is set.
C10_MissingCaseSessionOpen ==
    [][\A c \in Controllers :
          (pc[c] \in {"dl_check", "rm_check"} /\ pc'[c] # pc[c]
              /\ SessionOpen(c)
              /\ BaseName(c) \notin DOMAIN uploaded_dirs[c])
              => MissingCasePolicy(c)]_vars

\* C10, its case: a purge of an unknown base name was refused with the session set
C10_Witness ==
    /\ Ended(1, "purgeDirectory") /\ result[1] = "NotFound"
    /\ SessionOpen(1)
    /\ BaseName(1) \notin DOMAIN uploaded_dirs[1]
    /\ ~arg[1].ignore

\* C11: stageDirectory writes the ledger only after every file of the directory has
\* been uploaded: when the ledger step is reached each file below the directory is a
\* blob with the file's content, and a data-file upload that fails ends the call with
\* no ledger entry added and the blob uploaded_dirs.dat and the data blobs as they were.
C11_LedgerAfterData ==
    /\ [](\A c \in Controllers :
            /\ pc[c] = "up_ledger"
                  => \A f \in DOMAIN localFs :
                        IsUnder(f, DirPath(c))
                           => /\ Relpath(f, Dirname(DirPath(c))) \in DOMAIN blobs
                              /\ blobs[Relpath(f, Dirname(DirPath(c)))] = localFs[f]
            /\ pc[c] = "up_file"
                  => ~hist[c].mutated /\ BaseName(c) \notin DOMAIN uploaded_dirs[c])
    /\ [][\A c \in Controllers :
            /\ (pc[c] = "up_file" /\ pc'[c] = "idle")
                  => /\ result'[c] = "BackendFault"
                     /\ UNCHANGED << uploaded_dirs, ledgerBlob, blobs >>
            /\ (pc[c] \in {"up_check", "up_file"} /\ pc'[c] # "idle")
                  => UNCHANGED << uploaded_dirs, ledgerBlob >>]_vars

\* C11, its case: the first file was uploaded, the upload of the second one failed
C11_Witness ==
    /\ Ended(1, "stageDirectory") /\ result[1] = "BackendFault"
    /\ hist[1].nreq = 2 /\ ~hist[1].mutated
    /\ DirPath(1) = <<"p", "a">>
    /\ <<"a", "x">> \in DOMAIN blobs
    /\ "a" \notin DOMAIN uploaded_dirs[1]
    /\ ledgerBlob = <<>>

\* C12: submitTask adds the task of a case only after the staging of the case has
\* succeeded in the same call, that is with every file of the directory uploaded and
\* uploaded_dirs.dat holding a ledger with the case; a call whose staging fails, the
\* duplicate-case error included, adds no task.
C12_TaskAfterStage ==
    /\ [](\A c \in Controllers :
            pc[c] = "at_add"
               => /\ op[c] = "submitTask"
                  /\ hist[c].mutated
                  /\ BaseName(c) \in DOMAIN uploaded_dirs[c]
                  /\ ledgerBlob # <<>>
                  /\ <<BaseName(c), Dirname(DirPath(c))>> \in ledgerBlob[1]
                  /\ \A f \in DOMAIN localFs :
                        IsUnder(f, DirPath(c))
                           => /\ Relpath(f, Dirname(DirPath(c))) \in DOMAIN blobs
                              /\ blobs[Relpath(f, Dirname(DirPath(c)))] = localFs[f])
    /\ [][/\ tasks' # tasks
             => \E c \in Controllers :
                   pc[c] = "at_add" /\ tasks' = tasks \cup {BaseName(c)}
          /\ \A c \in Controllers :
                (op[c] = "submitTask" /\ pc[c] \in {"up_check", "up_file", "up_ledger"}
                    /\ pc'[c] = "idle")
                   => result'[c] # "ok" /\ tasks' = tasks]_vars

\* C12, its case: a task was added for a directory with two files
C12_Witness ==
    /\ Ended(1, "submitTask") /\ result[1] = "ok"
    /\ DirPath(1) = <<"p", "a">>
    /\ "a" \in tasks
    /\ hist[1].nreq = 4

\* the ledger entries and the data blobs of the cases other than b are left as they are
OthersUnchanged(c, b) ==
    /\ \A k \in Cases \ {b} :
          /\ k \in DOMAIN uploaded_dirs'[c] <=> k \in DOMAIN uploaded_dirs[c]
          /\ k \in DOMAIN uploaded_dirs[c] => uploaded_dirs'[c][k] = uploaded_dirs[c][k]
    /\ \A n \in DOMAIN blobs \cup DOMAIN blobs' :
          ~HasPrefix(n, b)
             => n \in DOMAIN blobs /\ n \in DOMAIN blobs' /\ blobs'[n] = blobs[n]

C14_RoundTrip ==
    [][\A c \in Controllers :
          (op[c] = "fetchDirectory" /\ hist[c].afterStage)
             => /\ (pc[c] = "dl_list" /\ (pc'[c] = "dl_file" \/ result'[c] = "ok"))
                   => { loc'[c].todo[i] : i \in 1..Len(loc'[c].todo) }
                        = { Relpath(f, Dirname(DirPath(c))) :
                               f \in { g \in DOMAIN localFs : IsUnder(g, DirPath(c)) } }
                /\ pc[c] = "dl_file" => localFs' = localFs]_vars

\* C15: once ensureContainer has returned normally the URL and the token of the
\* container are set; stageDirectory, fetchDirectory and purgeDirectory called with no
\* session end at their first step with an assertion error, no request made and the
\* container as it was, and none of their requests is made with no session.
C15_SessionRequired ==
    /\ [](\A c \in Controllers :
            /\ (Ended(c, "ensureContainer") /\ result[c] = "ok")
                  => container_url[c] # Null /\ container_token[c] # Null
            /\ pc[c] \in {"up_file", "up_ledger", "dl_list", "dl_file",
                          "rm_list", "rm_blob", "rm_ledger"}
                  => container_url[c] # Null /\ container_token[c] # Null)
    /\ [][\A c \in Controllers :
            (pc[c] \in {"up_check", "dl_check", "rm_check"} /\ pc'[c] # pc[c]
                /\ (container_url[c] = Null \/ container_token[c] = Null))
               => /\ pc'[c] = "idle"
                  /\ result'[c] = "AssertionError"
                  /\ hist'[c].nreq = 0
                  /\ UNCHANGED << container, blobs, ledgerBlob, localFs,
                                  uploaded_dirs >>]_vars

\* C15, its case: a purge with no session, the container holding blobs of the case
C15_Witness ==
    /\ Ended(1, "purgeDirectory") /\ result[1] = "AssertionError"
    /\ container_url[1] = Null /\ container_token[1] = Null
    /\ container = "exists" /\ Staged(BaseName(1))
    /\ hist[1].nreq = 0

\* C16: with two controllers staging directories of different base names, every
\* upload of uploaded_dirs.dat replaces the blob by the ledger in memory of the
\* controller that uploads, whatever the blob held; so once both calls have returned
\* normally the blob is the ledger in memory of one of the two, the last to upload.
C16_LastWriteWins ==
    /\ []((/\ \A c \in Controllers : Ended(c, "stageDirectory") /\ result[c] = "ok"
           /\ BaseName(1) # BaseName(2))
             => \E c \in Controllers : ledgerBlob = << Dumps(uploaded_dirs[c]) >>)
    /\ [][\A c \in Controllers :
            (pc[c] = "up_ledger" /\ pc'[c] = "idle" /\ result'[c] = "ok")
               => ledgerBlob' = << Dumps(uploaded_dirs'[c]) >>]_vars

\* C16, its case: both controllers have staged, the second upload of uploaded_dirs.dat
\* has replaced the first one, and the case of the first controller has its blobs in
\* the container and no entry in uploaded_dirs.dat
C16_Witness ==
    /\ \A c \in Controllers : Ended(c, "stageDirectory") /\ result[c] = "ok"
    /\ BaseName(1) = "a" /\ BaseName(2) = "b"
    /\ uploaded_dirs[1] = [k \in {"a"} |-> <<"p">>]
    /\ ledgerBlob = << Dumps(uploaded_dirs[2]) >>
    /\ ledgerBlob = << {<<"b", <<"p">> >>} >>
    /\ <<"a", "x">> \in DOMAIN blobs /\ <<"a", "s", "y">> \in DOMAIN blobs

\* C17: purgeDirectory removes the ledger entry and rewrites uploaded_dirs.dat only
\* after every blob under the prefix of the case has been deleted; a deletion that
\* fails ends the call with the case still in the ledger in memory, uploaded_dirs.dat
\* as it was and the blobs deleted so far still deleted.
C17_LedgerAfterDeletes ==
    /\ [](\A c \in Controllers :
            /\ pc[c] = "rm_ledger" => ~Staged(BaseName(c))
            /\ pc[c] \in {"rm_list", "rm_blob"}
                  => ~hist[c].mutated /\ BaseName(c) \in DOMAIN uploaded_dirs[c])
    /\ [][\A c \in Controllers :
            /\ (pc[c] = "rm_blob" /\ pc'[c] = "idle")
                  => /\ result'[c] = "BackendFault"
                     /\ BaseName(c) \in DOMAIN uploaded_dirs'[c]
                     /\ UNCHANGED << uploaded_dirs, ledgerBlob, blobs >>
            /\ (pc[c] \in {"rm_check", "rm_list", "rm_blob"} /\ pc'[c] # pc[c])
                  => UNCHANGED << uploaded_dirs, ledgerBlob >>
            /\ pc[c] = "rm_blob" => DOMAIN blobs' \subseteq DOMAIN blobs]_vars

\* C17, its case: the first blob of the case was deleted, the second deletion failed
C17_Witness ==
    /\ Ended(1, "purgeDirectory") /\ result[1] = "BackendFault"
    /\ BaseName(1) = "a" /\ hist[1].nreq = 3
    /\ <<"a", "s", "y">> \notin DOMAIN blobs /\ <<"a", "x">> \in DOMAIN blobs
    /\ "a" \in DOMAIN uploaded_dirs[1]
    /\ ledgerBlob = << {<<"a", <<"p">> >>} >>

\* C18: a stageDirectory that ends with an error leaves the ledger in memory as it was
\* at the call: no step of stageDirectory other than its normal return changes the
\* ledger in memory.
C18_NoEntryOnError ==
    [][\A c \in Controllers :
          (op[c] = "stageDirectory" /\ pc[c] \in {"up_check", "up_file", "up_ledger"}
              /\ ~(pc'[c] = "idle" /\ result'[c] = "ok"))
             => uploaded_dirs'[c] = uploaded_dirs[c]]_vars

\* C19: a call of ensureContainer in which a creation attempt created the container
\* returns normally with the session set; the timeout error ends only calls in which
\* no attempt created it.
C19_TimeoutOnlyWithoutSuccess ==
    \A c \in Controllers :
        (Ended(c, "ensureContainer") /\ hist[c].gotCreated)
            => /\ result[c] = "ok"
               /\ container_url[c] # Null /\ container_token[c] # Null

\* C20: ensurePool makes its resize request only when the allocation state it last
\* read from the pool is "steady".
C20_ResizeOnlyWhenSteady ==
    \A c \in Controllers :
        hist[c].resizes > 0 => hist[c].resizeArg.lastSeen = "steady"

\* C21: a call of ensurePool that is in its polling loop either ends, or polls for ever
\* without having read "steady" and without a resize request: so it ends whenever a
\* poll reads "steady", and only an error of pool.get ends it otherwise.
C21_PollEndsIffSteady ==
    /\ [](\A c \in Controllers :
            pc[c] \in {"cp_sleep", "cp_poll"}
               => \/ <>(pc[c] = "idle")
                  \/ [](/\ pc[c] \in {"cp_sleep", "cp_poll"}
                        /\ loc[c].alloc # "steady"
                        /\ hist[c].resizes = 0))
    /\ [][\A c \in Controllers :
            (pc[c] = "cp_poll" /\ pc'[c] \notin {"cp_poll", "cp_sleep"})
               => \/ pc'[c] = "cp_resize" /\ poolAlloc = "steady"
                  \/ pc'[c] = "idle" /\ result'[c] = "BackendFault"]_vars

\* C21, its case: the call is in the loop, its last poll having read "stopping"
C21_Witness ==
    /\ pc[1] = "cp_sleep" /\ op[1] = "ensurePool"
    /\ hist[1].stops = 1 /\ loc[1].alloc = "stopping"
    /\ poolExists /\ poolAlloc = "stopping"

====
